---- MODULE Spec2Model ----
(***************************************************************************)
(* Model of utilities/pbp_timer.py: the Timers registry (a UserDict whose  *)
(* data holds the running totals, with a parallel defaultdict _timings of  *)
(* the recorded values) and the Timer stopwatch (start / stop, reporting   *)
(* through an optional logger, forwarding to the class-level registry).    *)
(*                                                                         *)
(* Durations are counted in clock ticks (exact integer arithmetic); the    *)
(* rounding of floating-point addition is not modelled.                    *)
(***************************************************************************)
EXTENDS Integers, Sequences, FiniteSets, TLC

\* ---------------------------------------------------------------- bounds
\* largest number of values held by _timings when the statistics are checked
MaxSamples == 4
\* deepest nesting of "with timer:" blocks on one instance
MaxDepth == 1
\* largest reading of time.perf_counter()
MaxClock == 1
\* largest number of values held by _timings, over all names
MaxEntries == 2

\* -------------------------------------------------------------- universe
\* keys of the registry; "" is a string that Python treats as false
Names == {"", "a"}
\* values passed to Timers.add directly
Values == {1, 2}
\* values recorded when the statistics are checked
Samples == {0, 1, 3}
\* Timer instances of the single-timer specifications
Instances == {"t1"}

\* Optional[...] fields: None is <<>>, a value x is <<x>>
None == << >>
Some(x) == <<x>>
\* math.nan, and a number x, as the value of a float field or result
NaN == << >>
Num(x) == <<x>>

VARIABLES
    data,         \* Timers.data: name -> running total
    _timings,     \* Timers._timings: name -> list of recorded values
    _start_time,  \* Timer._start_time, per instance: None or Some(timestamp)
    last,         \* Timer.last, per instance: NaN or Num(elapsed)
    name,         \* Timer.name, per instance: None or Some(string)
    logger,       \* Timer.logger, per instance: TRUE when a sink is configured
    now,          \* reading of time.perf_counter()
    result,       \* outcome of the most recent call: what it returned or raised
    added,        \* history variable: values passed to add() since the last clear()
    wiped,        \* history variable: some clear() has removed recorded values
    blocks,       \* per instance: "with timer:" blocks entered and not yet left
    left,         \* how the most recently left "with" block ended
    threads,      \* per thread: its position inside a call of Timers.add
    overlap       \* history variable: an add began while another was under way

vars == <<data, _timings, _start_time, last, name, logger, now, result, added, wiped,
          blocks, left, threads, overlap>>
historyVars == <<added, wiped>>
registry == <<data, _timings>>
timerVars == <<_start_time, last>>
config == <<name, logger>>
scopeVars == <<blocks, left>>
threadVars == <<threads, overlap>>
frames == <<scopeVars, threadVars>>

\* ------------------------------------------------------------ pure helpers
EmptyMap == [n \in {} |-> 0]

RECURSIVE sum(_)
sum(values) == IF values = << >> THEN 0 ELSE values[1] + sum(Tail(values))

len(values) == Len(values)

RECURSIVE SumOver(_, _)
SumOver(f, S) ==
    IF S = {} THEN 0
    ELSE LET x == CHOOSE y \in S : TRUE IN Len(f[x]) + SumOver(f, S \ {x})

\* number of values currently held by the registry
Entries == SumOver(_timings, DOMAIN _timings)

\* collections.defaultdict(list).__getitem__: a missing key is created empty
DefaultGet(tm, n) == IF n \in DOMAIN tm THEN tm ELSE tm @@ (n :> << >>)

\* dict.setdefault(n, d)
SetDefault(d, n, dflt) == IF n \in DOMAIN d THEN d ELSE d @@ (n :> dflt)

\* Python truth value of Timer.name: None and "" are false
Truthy(nm) == nm # None /\ nm[1] # ""

\* the outcome of a call
Outcome(op, t, n, status, value, sink) ==
    [op |-> op, timer |-> t, name |-> n, status |-> status, value |-> value, sink |-> sink]

\* ------------------------------------------------------------- statistics
\* Exact rationals: the reduced fraction num/den is <<num, den>>
RECURSIVE Gcd(_, _)
Gcd(a, b) == IF b = 0 THEN a ELSE Gcd(b, a % b)

Abs(x) == IF x < 0 THEN -x ELSE x

Frac(num, den) ==
    LET g == Gcd(Abs(num), Abs(den)) IN
    IF g = 0 THEN <<0, 1>> ELSE <<num \div g, den \div g>>

\* "values or [0]": an empty list is replaced by a single zero
OrZero(values) == IF values = << >> THEN <<0>> ELSE values

RECURSIVE Insert(_, _)
Insert(x, sorted) ==
    IF sorted = << >> THEN <<x>>
    ELSE IF x <= sorted[1] THEN <<x>> \o sorted
    ELSE <<sorted[1]>> \o Insert(x, Tail(sorted))

RECURSIVE Sorted(_)
Sorted(values) ==
    IF values = << >> THEN << >> ELSE Insert(values[1], Sorted(Tail(values)))

RECURSIVE SumSquares(_)
SumSquares(values) ==
    IF values = << >> THEN 0 ELSE values[1] * values[1] + SumSquares(Tail(values))

\* builtin min / max of a non-empty list
Min(values) == CHOOSE x \in { values[i] : i \in DOMAIN values } :
                   \A i \in DOMAIN values : x <= values[i]
Max(values) == CHOOSE x \in { values[i] : i \in DOMAIN values } :
                   \A i \in DOMAIN values : x >= values[i]

\* statistics.mean
Mean(values) == Frac(sum(values), Len(values))

\* statistics.median as a buggy variant: the upper of the two middle values
medianHigh(values) ==
    LET s == Sorted(values)
        k == Len(s)
    IN  Frac(s[k \div 2 + 1], 1)

\* statistics.median: the middle value, or the mean of the two middle values
Median(values) ==
    LET s == Sorted(values)
        k == Len(s)
    IN  IF k % 2 = 1 THEN Frac(s[(k + 1) \div 2], 1)
        ELSE Frac(s[k \div 2] + s[k \div 2 + 1], 2)

\* statistics.stdev: the square root of the sample variance; the result is
\* represented by the variance it is the square root of,
\* (k * sum(x^2) - sum(x)^2) / (k * (k - 1))
Stdev(values) ==
    LET k == Len(values) IN
    Frac(k * SumSquares(values) - sum(values) * sum(values), k * (k - 1))

\* the functions that count, total, min, max, mean and median hand to apply
Func(f, values) ==
    CASE f = "count"  -> Num(len(values))
      [] f = "total"  -> Num(sum(values))
      [] f = "min"    -> Num(Min(OrZero(values)))
      [] f = "max"    -> Num(Max(OrZero(values)))
      [] f = "mean"   -> Mean(OrZero(values))
      [] f = "median" -> Median(OrZero(values))

ApplyFuncs == {"count", "total", "min", "max", "mean", "median"}
Queries == ApplyFuncs \cup {"stdev"}

\* ------------------------------------------------------- Timers (registry)
\* Timers.add as a buggy variant: a new value is put before the recorded ones
addPrepends(n, value) ==
    /\ _timings' = [DefaultGet(_timings, n) EXCEPT ![n] = <<value>> \o @]
    /\ data' = [SetDefault(data, n, 0) EXCEPT ![n] = @ + value]

\* Timers.add as a buggy variant: a new value replaces the recorded ones
addForgets(n, value) ==
    /\ _timings' = [DefaultGet(_timings, n) EXCEPT ![n] = <<value>>]
    /\ data' = [SetDefault(data, n, 0) EXCEPT ![n] = @ + value]

\* Timers.add as a buggy variant: the total is overwritten, not incremented
addOverwrite(n, value) ==
    /\ _timings' = [DefaultGet(_timings, n) EXCEPT ![n] = Append(@, value)]
    /\ data' = [SetDefault(data, n, 0) EXCEPT ![n] = value]

\* Timers.add
add(n, value) ==
    /\ _timings' = [DefaultGet(_timings, n) EXCEPT ![n] = Append(@, value)]
    /\ data' = [SetDefault(data, n, 0) EXCEPT ![n] = @ + value]

\* the history variables follow every call of add
Record(n, value) ==
    /\ added' = [added EXCEPT ![n] = Append(@, value)]
    /\ wiped' = wiped

\* a caller calls registry.add(n, value)
Add(n, value) ==
    /\ Entries < MaxEntries
    /\ add(n, value)
    /\ Record(n, value)
    /\ result' = Outcome("add", "", Some(n), "ok", Num(value), << >>)
    /\ UNCHANGED <<timerVars, config, now, frames>>

\* Timers.clear as a buggy variant: the recorded values are kept
clearTotalsOnly ==
    /\ data' = EmptyMap
    /\ _timings' = _timings

\* Timers.clear
clear ==
    /\ data' = EmptyMap
    /\ _timings' = EmptyMap

Clear ==
    /\ clear
    /\ added' = [n \in Names |-> << >>]
    /\ wiped' = (wiped \/ DOMAIN _timings # {})
    /\ result' = Outcome("clear", "", None, "ok", NaN, << >>)
    /\ UNCHANGED <<timerVars, config, now, frames>>

\* UserDict.__setitem__, which Timers overrides: the assignment is carried out
setitemAllowed(n, value) ==
    /\ data' = [SetDefault(data, n, 0) EXCEPT ![n] = value]
    /\ _timings' = _timings
    /\ result' = Outcome("setitem", "", Some(n), "ok", NaN, << >>)

\* Timers.__setitem__: registry[n] = value
setitem(n, value) ==
    /\ UNCHANGED registry
    /\ result' = Outcome("setitem", "", Some(n), "TypeError", NaN, << >>)

SetItem(n, value) ==
    /\ setitem(n, value)
    /\ UNCHANGED <<timerVars, config, now, historyVars, frames>>

\* Timers.apply as a buggy variant: the list is looked up before the test,
\* which makes the defaultdict create it
applyLooksUp(f, n) ==
    /\ _timings' = DefaultGet(_timings, n)
    /\ data' = data
    /\ result' = Outcome(f, "", Some(n), "ok", Func(f, _timings'[n]), << >>)

\* Timers.apply, with the functions of count, total, min, max, mean, median
apply(f, n) ==
    /\ UNCHANGED registry
    /\ result' = IF n \in DOMAIN _timings
                 THEN Outcome(f, "", Some(n), "ok", Func(f, _timings[n]), << >>)
                 ELSE Outcome(f, "", Some(n), "KeyError", NaN, << >>)

\* Timers.stdev as a buggy variant: one value is enough for statistics.stdev
stdevOfOne(n) ==
    /\ UNCHANGED registry
    /\ result' = IF n \in DOMAIN _timings
                 THEN Outcome("stdev", "", Some(n), "ok",
                              IF Len(_timings[n]) >= 1 THEN Stdev(_timings[n]) ELSE NaN,
                              << >>)
                 ELSE Outcome("stdev", "", Some(n), "KeyError", NaN, << >>)

\* Timers.stdev
stdev(n) ==
    /\ UNCHANGED registry
    /\ result' = IF n \in DOMAIN _timings
                 THEN Outcome("stdev", "", Some(n), "ok",
                              IF Len(_timings[n]) >= 2 THEN Stdev(_timings[n]) ELSE NaN,
                              << >>)
                 ELSE Outcome("stdev", "", Some(n), "KeyError", NaN, << >>)

Query(f, n) ==
    /\ IF f = "stdev" THEN stdev(n) ELSE apply(f, n)
    /\ UNCHANGED <<timerVars, config, now, historyVars, frames>>

\* ------------------------------------------------------------------ Timer
\* the report handed to the logger, built from Timer.text: text(last) when it
\* is a function, text.format(last, name=..., seconds=..., ...) when it is a
\* template.  The report is represented by the elapsed time it is built from.
Report(t, elapsed) == [seconds |-> elapsed]

\* Timer.start as a buggy variant: a running timer is restarted
startRestarts(t) ==
    /\ _start_time' = [_start_time EXCEPT ![t] = Some(now)]
    /\ last' = last
    /\ result' = Outcome("start", t, name[t], "ok", NaN, << >>)

\* Timer.start
start(t) ==
    IF _start_time[t] # None
    THEN /\ result' = Outcome("start", t, name[t], "TimerError", NaN, << >>)
         /\ UNCHANGED timerVars
    ELSE /\ _start_time' = [_start_time EXCEPT ![t] = Some(now)]
         /\ last' = last
         /\ result' = Outcome("start", t, name[t], "ok", NaN, << >>)

Start(t) ==
    /\ start(t)
    /\ UNCHANGED <<registry, config, now, historyVars, frames>>

\* the reports the logger receives during one stop: none without a logger,
\* none when building the report raises
loggedAlways(t, elapsed, formatterRaises) ==
    <<Report(t, elapsed)>>

logged(t, elapsed, formatterRaises) ==
    IF logger[t] /\ ~formatterRaises THEN <<Report(t, elapsed)>> ELSE << >>

\* Timer.stop after its guard as a buggy variant: the value is forwarded to
\* the registry before it is reported
finishAddsFirst(t, started, formatterRaises, loggerRaises) ==
    LET elapsed == now - started IN
    /\ last' = [last EXCEPT ![t] = Num(elapsed)]
    /\ _start_time' = [_start_time EXCEPT ![t] = None]
    /\ IF Truthy(name[t])
       THEN add(name[t][1], elapsed) /\ Record(name[t][1], elapsed)
       ELSE UNCHANGED <<registry, historyVars>>
    /\ result' = IF logger[t] /\ formatterRaises
                 THEN Outcome("stop", t, name[t], "FormatterError", NaN, << >>)
                 ELSE IF logger[t] /\ loggerRaises
                 THEN Outcome("stop", t, name[t], "LoggerError", NaN,
                              <<Report(t, elapsed)>>)
                 ELSE Outcome("stop", t, name[t], "ok", Num(elapsed),
                              IF logger[t] THEN <<Report(t, elapsed)>> ELSE << >>)

\* Timer.stop after its guard as a buggy variant: the elapsed time is
\* reported before it is stored and the timer reset, so that an error of
\* the report leaves the timer running
finishReportsFirst(t, started, formatterRaises, loggerRaises) ==
    LET elapsed == now - started IN
    IF logger[t] /\ (formatterRaises \/ loggerRaises)
    THEN /\ result' = Outcome("stop", t, name[t],
                              IF formatterRaises THEN "FormatterError" ELSE "LoggerError",
                              NaN,
                              IF formatterRaises THEN << >> ELSE <<Report(t, elapsed)>>)
         /\ UNCHANGED <<timerVars, registry, historyVars>>
    ELSE /\ last' = [last EXCEPT ![t] = Num(elapsed)]
         /\ _start_time' = [_start_time EXCEPT ![t] = None]
         /\ IF Truthy(name[t])
            THEN add(name[t][1], elapsed) /\ Record(name[t][1], elapsed)
            ELSE UNCHANGED <<registry, historyVars>>
         /\ result' = Outcome("stop", t, name[t], "ok", Num(elapsed),
                              IF logger[t] THEN <<Report(t, elapsed)>> ELSE << >>)

\* Timer.stop after its guard, for a timer started at time started.
\* formatterRaises: building the report (text(last) or text.format) raises;
\* loggerRaises: the logger raises.  Both are only consulted when a logger
\* is configured.
finish(t, started, formatterRaises, loggerRaises) ==
    LET elapsed == now - started IN
    /\ last' = [last EXCEPT ![t] = Num(elapsed)]
    /\ _start_time' = [_start_time EXCEPT ![t] = None]
    /\ IF logger[t] /\ formatterRaises
       THEN /\ result' = Outcome("stop", t, name[t], "FormatterError", NaN,
                                 logged(t, elapsed, formatterRaises))
            /\ UNCHANGED <<registry, historyVars>>
       ELSE IF logger[t] /\ loggerRaises
       THEN /\ result' = Outcome("stop", t, name[t], "LoggerError", NaN,
                                 logged(t, elapsed, formatterRaises))
            /\ UNCHANGED <<registry, historyVars>>
       ELSE /\ IF Truthy(name[t])
               THEN add(name[t][1], elapsed) /\ Record(name[t][1], elapsed)
               ELSE UNCHANGED <<registry, historyVars>>
            /\ result' = Outcome("stop", t, name[t], "ok", Num(elapsed),
                                 logged(t, elapsed, formatterRaises))

\* Timer.stop as a buggy variant: an idle timer is stopped as if it had
\* been started just now
stopUnguarded(t, formatterRaises, loggerRaises) ==
    finish(t, IF _start_time[t] = None THEN now ELSE _start_time[t][1],
           formatterRaises, loggerRaises)

\* Timer.stop
stop(t, formatterRaises, loggerRaises) ==
    IF _start_time[t] = None
    THEN /\ result' = Outcome("stop", t, name[t], "TimerError", NaN, << >>)
         /\ UNCHANGED <<timerVars, registry, historyVars>>
    ELSE finish(t, _start_time[t][1], formatterRaises, loggerRaises)

\* whether this call of stop reaches the call of add
Forwards(t, formatterRaises, loggerRaises) ==
    /\ _start_time[t] # None
    /\ Truthy(name[t])
    /\ ~(logger[t] /\ (formatterRaises \/ loggerRaises))

Stop(t, formatterRaises, loggerRaises) ==
    /\ Forwards(t, formatterRaises, loggerRaises) => Entries < MaxEntries
    /\ stop(t, formatterRaises, loggerRaises)
    /\ UNCHANGED <<config, now, frames>>

\* time passes: time.perf_counter() is monotonic
Tick ==
    /\ now < MaxClock
    /\ now' = now + 1
    /\ result' = Outcome("tick", "", None, "ok", NaN, << >>)
    /\ UNCHANGED <<registry, timerVars, config, historyVars, frames>>

\* ---------------------------------------------------------- specification
\* Timer(name=..., logger=...): the fields set at construction
NameOptions == {None} \cup { Some(n) : n \in Names }

\* the threads that call Timers.add concurrently
Threads == {"th1", "th2"}

\* a thread that is not inside add
Idle == [pc |-> "idle", name |-> "", value |-> 0, total |-> 0]

\* no "with" block has been left yet
NotLeft == [timer |-> "", body |-> FALSE, status |-> "none"]

\* a new registry, idle timers that have never run
InitWith(instances) ==
    /\ data = EmptyMap
    /\ _timings = EmptyMap
    /\ _start_time = [t \in instances |-> None]
    /\ last = [t \in instances |-> NaN]
    /\ name \in [instances -> NameOptions]
    /\ logger \in [instances -> BOOLEAN]
    /\ now = 0
    /\ result = Outcome("init", "", None, "ok", NaN, << >>)
    /\ added = [n \in Names |-> << >>]
    /\ wiped = FALSE
    /\ blocks = [t \in instances |-> 0]
    /\ left = NotLeft
    /\ threads = [th \in Threads |-> Idle]
    /\ overlap = FALSE

Init == InitWith(Instances)

TimerNext ==
    \E t \in DOMAIN _start_time :
        \/ Start(t)
        \/ \E formatterRaises, loggerRaises \in BOOLEAN :
               Stop(t, formatterRaises, loggerRaises)

RegistryNext ==
    \/ \E n \in Names, value \in Values : Add(n, value)
    \/ Clear
    \/ \E n \in Names, value \in Values : SetItem(n, value)
    \/ \E f \in Queries, n \in Names : Query(f, n)

Next == Tick \/ RegistryNext \/ TimerNext

Spec == Init /\ [][Next]_vars

\* ------------------------------------- the mapping operations of UserDict
\* del registry[n]: UserDict.__delitem__ deletes from data alone
delitem(n) ==
    IF n \in DOMAIN data
    THEN /\ data' = [m \in DOMAIN data \ {n} |-> data[m]]
         /\ _timings' = _timings
         /\ result' = Outcome("delitem", "", Some(n), "ok", NaN, << >>)
    ELSE /\ UNCHANGED registry
         /\ result' = Outcome("delitem", "", Some(n), "KeyError", NaN, << >>)

DelItem(n) ==
    /\ delitem(n)
    /\ UNCHANGED <<timerVars, config, now, historyVars, frames>>

\* registry.pop(n) and registry.pop(n, default): MutableMapping.pop reads
\* self[n], deletes it with __delitem__ and returns the value
pop(n, default) ==
    IF n \in DOMAIN data
    THEN /\ data' = [m \in DOMAIN data \ {n} |-> data[m]]
         /\ _timings' = _timings
         /\ result' = Outcome("pop", "", Some(n), "ok", Num(data[n]), << >>)
    ELSE /\ UNCHANGED registry
         /\ result' = IF default = None
                      THEN Outcome("pop", "", Some(n), "KeyError", NaN, << >>)
                      ELSE Outcome("pop", "", Some(n), "ok", default, << >>)

Pop(n, default) ==
    /\ pop(n, default)
    /\ UNCHANGED <<timerVars, config, now, historyVars, frames>>

MappingNext ==
    \/ \E n \in Names : DelItem(n)
    \/ \E n \in Names, default \in {None, Num(0)} : Pop(n, default)

NextMapping == Next \/ MappingNext

SpecMapping == Init /\ [][NextMapping]_vars

\* ------------------------------------------- the registry on its own
\* a caller records a sample: registry.add(n, value)
AddSample(n, value) ==
    /\ Entries < MaxSamples
    /\ add(n, value)
    /\ Record(n, value)
    /\ result' = Outcome("add", "", Some(n), "ok", Num(value), << >>)
    /\ UNCHANGED <<timerVars, config, now, frames>>

InitStats == InitWith({})

StatsNext ==
    \/ \E n \in Names, value \in Samples : AddSample(n, value)
    \/ Clear
    \/ \E f \in Queries, n \in Names : Query(f, n)

SpecStats == InitStats /\ [][StatsNext]_vars

\* --------------------------------------- two timers of the same name
\* two Timer instances constructed with the same name; Timer.timers is a
\* class attribute, so both forward to the one registry
InitShared ==
    /\ InitWith({"t1", "t2"})
    /\ name["t1"] = name["t2"]
    /\ name["t1"] # None

SharedNext == Tick \/ Clear \/ TimerNext

SpecShared == InitShared /\ [][SharedNext]_vars

\* ------------------------------------- Timers.add called from two threads
\* Without a lock the interpreter may switch threads between the steps of
\* add: the append to the history, the setdefault of the total, the read of
\* data[name] and the write of data[name] that make up "+=".
Busy(th) == threads[th].pc # "idle"

\* values that calls of add under way are still going to append
Pending == Cardinality({ th \in Threads : threads[th].pc = "append" })

\* a thread calls registry.add(n, value)
Begin(th, n, value) ==
    /\ ~Busy(th)
    /\ Entries + Pending < MaxEntries
    /\ threads' = [threads EXCEPT ![th] =
                       [pc |-> "append", name |-> n, value |-> value, total |-> 0]]
    /\ overlap' = (overlap \/ \E other \in Threads \ {th} : Busy(other))
    /\ added' = [added EXCEPT ![n] = Append(@, value)]
    /\ UNCHANGED <<registry, timerVars, config, now, result, wiped, scopeVars>>

\* self._timings[name].append(value)
AppendStep(th) ==
    /\ threads[th].pc = "append"
    /\ _timings' = [DefaultGet(_timings, threads[th].name) EXCEPT
                        ![threads[th].name] = Append(@, threads[th].value)]
    /\ threads' = [threads EXCEPT ![th].pc = "setdefault"]
    /\ UNCHANGED <<data, timerVars, config, now, result, historyVars, scopeVars, overlap>>

\* self.data.setdefault(name, 0)
SetDefaultStep(th) ==
    /\ threads[th].pc = "setdefault"
    /\ data' = SetDefault(data, threads[th].name, 0)
    /\ threads' = [threads EXCEPT ![th].pc = "load"]
    /\ UNCHANGED <<_timings, timerVars, config, now, result, historyVars, scopeVars, overlap>>

\* self.data[name] += value, first half: the total is read
LoadStep(th) ==
    /\ threads[th].pc = "load"
    /\ threads' = [threads EXCEPT ![th].pc = "store",
                                  ![th].total = data[threads[th].name]]
    /\ UNCHANGED <<registry, timerVars, config, now, result, historyVars, scopeVars, overlap>>

\* the write of "+=" as a buggy variant: the value is stored, not the sum
storeValue(th) ==
    data' = [data EXCEPT ![threads[th].name] = threads[th].value]

\* self.data[name] += value, second half: the sum is written
store(th) ==
    data' = [data EXCEPT ![threads[th].name] = threads[th].total + threads[th].value]

StoreStep(th) ==
    /\ threads[th].pc = "store"
    /\ store(th)
    /\ threads' = [threads EXCEPT ![th] = Idle]
    /\ result' = Outcome("add", "", Some(threads[th].name), "ok",
                         Num(threads[th].value), << >>)
    /\ UNCHANGED <<_timings, timerVars, config, now, historyVars, scopeVars, overlap>>

ThreadsNext ==
    \E th \in Threads :
        \/ \E n \in Names, value \in Values : Begin(th, n, value)
        \/ AppendStep(th)
        \/ SetDefaultStep(th)
        \/ LoadStep(th)
        \/ StoreStep(th)

SpecThreads == InitStats /\ [][ThreadsNext]_vars

\* ------------------------------------- context manager and decorator use
\* "with timer:" and a call of a function decorated with the timer (which
\* ContextDecorator runs as "with timer: return func(...)") call __enter__
\* before the body and __exit__ when the body is left.

\* Timer.__enter__: if start raises, the block is not entered
enter(t) ==
    /\ start(t)
    /\ blocks' = [blocks EXCEPT ![t] = IF result'.status = "ok" THEN @ + 1 ELSE @]
    /\ left' = left

Enter(t) ==
    /\ _start_time[t] # None \/ blocks[t] < MaxDepth
    /\ enter(t)
    /\ UNCHANGED <<registry, config, now, historyVars, threadVars>>

\* what the caller of the block sees: an error of stop() raised in __exit__
\* replaces the error of the body; __exit__ returns None, so the error of
\* the body is raised again when stop() returns
Propagated(bodyRaises, stopStatus) ==
    IF stopStatus # "ok" THEN stopStatus
    ELSE IF bodyRaises THEN "BodyError" ELSE "ok"

\* Timer.__exit__ as a buggy variant: stop is skipped when the body raised
exitSkipsOnError(t, bodyRaises, formatterRaises, loggerRaises) ==
    /\ IF bodyRaises
       THEN UNCHANGED <<timerVars, registry, historyVars, result>>
       ELSE stop(t, formatterRaises, loggerRaises)
    /\ blocks' = [blocks EXCEPT ![t] = @ - 1]
    /\ left' = [timer |-> t, body |-> bodyRaises,
                status |-> IF bodyRaises THEN "BodyError" ELSE result'.status]

\* Timer.__exit__, whether the body returned or raised (bodyRaises)
exit(t, bodyRaises, formatterRaises, loggerRaises) ==
    /\ stop(t, formatterRaises, loggerRaises)
    /\ blocks' = [blocks EXCEPT ![t] = @ - 1]
    /\ left' = [timer |-> t, body |-> bodyRaises,
                status |-> Propagated(bodyRaises, result'.status)]

Exit(t, bodyRaises, formatterRaises, loggerRaises) ==
    /\ blocks[t] > 0
    /\ Forwards(t, formatterRaises, loggerRaises) => Entries < MaxEntries
    /\ exit(t, bodyRaises, formatterRaises, loggerRaises)
    /\ UNCHANGED <<config, now, threadVars>>

\* the body of a block may do anything: here it lets time pass, uses the
\* timer directly, enters further blocks, and adds to and clears the registry
ScopedNext ==
    \/ Tick
    \/ \E n \in Names, value \in Values : Add(n, value)
    \/ Clear
    \/ TimerNext
    \/ \E t \in DOMAIN _start_time : Enter(t)
    \/ \E t \in DOMAIN _start_time, bodyRaises, formatterRaises, loggerRaises \in BOOLEAN :
           Exit(t, bodyRaises, formatterRaises, loggerRaises)

SpecScoped == Init /\ [][ScopedNext]_vars

\* a timer that is used only as a decorator: every start is the beginning of
\* a call of the wrapped function, every stop its end; a call made while
\* blocks[t] > 0 is a re-entrant call
DecoratedNext ==
    \/ Tick
    \/ Clear
    \/ \E t \in DOMAIN _start_time : Enter(t)
    \/ \E t \in DOMAIN _start_time, bodyRaises, formatterRaises, loggerRaises \in BOOLEAN :
           Exit(t, bodyRaises, formatterRaises, loggerRaises)

SpecDecorated == Init /\ [][DecoratedNext]_vars

\* ------------------------------------------------------------ properties
Present == DOMAIN data \cup DOMAIN _timings
NewRegistry == <<EmptyMap, EmptyMap>>
Running(t) == _start_time[t] # None
TimerIds == DOMAIN _start_time

\* C1: in every reachable state, every name present in the registry has a
\* total equal to the sum of its recorded values, and at least one value.
C1_TotalsMatchHistory ==
    \A n \in Present :
        /\ n \in DOMAIN data
        /\ n \in DOMAIN _timings
        /\ data[n] = sum(_timings[n])
        /\ Len(_timings[n]) >= 1

\* a name holds two values, the second of them recorded by a timer
C1_Witness ==
    /\ result.op = "stop"
    /\ result.status = "ok"
    /\ Truthy(result.name)
    /\ Len(_timings[result.name[1]]) = 2
    /\ data[result.name[1]] > result.value[1]

\* C2: for the values v1..vk (k >= 1) passed to add(n, .) since the registry
\* was last empty, whatever was added to other names in between,
\* total(n) = v1 + ... + vk and count(n) = k.
C2_TotalAndCountOfAdds ==
    \A n \in Names :
        Len(added[n]) >= 1 =>
            /\ n \in DOMAIN _timings
            /\ Func("total", _timings[n]) = Num(sum(added[n]))
            /\ Func("count", _timings[n]) = Num(Len(added[n]))

\* two values were added to one name
C2_Witness ==
    \E n \in Names : Len(added[n]) = 2 /\ sum(added[n]) = 3

\* C3: start() on a running timer raises TimerError and changes nothing: the
\* timer keeps its start timestamp and its last, the logger is not called,
\* the registry is unchanged.
C3_StartWhileRunning ==
    [][\A t \in TimerIds :
          (result'.op = "start" /\ result'.timer = t /\ Running(t)) =>
              /\ result'.status = "TimerError"
              /\ _start_time' = _start_time
              /\ last' = last
              /\ result'.sink = << >>
              /\ registry' = registry]_vars

\* a second start() was rejected after the clock had moved on and the timer
\* kept the earlier timestamp
C3_Witness ==
    /\ result.op = "start"
    /\ result.status = "TimerError"
    /\ Running(result.timer)
    /\ _start_time[result.timer][1] < now

\* C4: stop() on an idle timer (never started, or stopped) raises TimerError;
\* the timer stays idle with last unchanged, the logger is not called and
\* nothing is added to the registry.
C4_StopWhileIdle ==
    [][\A t \in TimerIds :
          (result'.op = "stop" /\ result'.timer = t /\ ~Running(t)) =>
              /\ result'.status = "TimerError"
              /\ ~Running(t)'
              /\ last' = last
              /\ result'.sink = << >>
              /\ registry' = registry]_vars

\* stop() was rejected on a named timer with a logger that had already
\* completed a run
C4_Witness ==
    /\ result.op = "stop"
    /\ result.status = "TimerError"
    /\ last[result.timer] # NaN
    /\ Truthy(result.name)
    /\ logger[result.timer]

\* C5: whenever stop() returns on a running timer whose name is a string (any
\* string, as opposed to None), exactly one entry (name, elapsed) is added
\* to the registry, elapsed being the value returned and stored in last.
C5_NamedStopAddsOneEntry ==
    [][\A t \in TimerIds :
          (result'.op = "stop" /\ result'.timer = t /\ result'.status = "ok"
              /\ Running(t) /\ name[t] # None) =>
              LET n == name[t][1]
                  elapsed == result'.value[1]
              IN  /\ last'[t] = Num(elapsed)
                  /\ _timings' = [DefaultGet(_timings, n) EXCEPT ![n] = Append(@, elapsed)]
                  /\ data' = [SetDefault(data, n, 0) EXCEPT ![n] = @ + elapsed]]_vars

\* C6: registry[name] = value raises TypeError for an existing and for a new
\* key and leaves totals and history as they were.
C6_ItemAssignmentRejected ==
    [][result'.op = "setitem" =>
          /\ result'.status = "TypeError"
          /\ registry' = registry]_vars

\* an assignment to an existing key was rejected
C6_Witness ==
    /\ result.op = "setitem"
    /\ result.status = "TypeError"
    /\ result.name[1] \in DOMAIN data
    /\ data[result.name[1]] > 0

\* C7: clear() empties totals and history, and no other operation of the
\* registry object (item deletion and pop included) makes a name that was
\* present in totals or history absent from either.
C7_OnlyClearRemoves ==
    [][/\ result'.op = "clear" => registry' = NewRegistry
       /\ result'.op # "clear" =>
              /\ DOMAIN data \subseteq DOMAIN data'
              /\ DOMAIN _timings \subseteq DOMAIN _timings']_vars

\* C8: a statistic query for a name that is not recorded raises KeyError and
\* creates no entry: totals and history are unchanged.
C8_QueryOfUnknownName ==
    [][\A n \in Names :
          (result'.op \in Queries /\ result'.name = Some(n) /\ n \notin DOMAIN _timings) =>
              /\ result'.status = "KeyError"
              /\ registry' = registry]_vars

\* a query failed after a clear() had removed recorded values
C8_Witness ==
    /\ result.op \in Queries
    /\ result.status = "KeyError"
    /\ wiped
    /\ registry = NewRegistry

\* C9: clear() leaves the registry equal to a new one, and add(n, v) right
\* after clear() gives count(n) = 1, total(n) = v, history[n] = <<v>> and
\* no other name.
C9_ClearThenAdd ==
    [][/\ result'.op = "clear" => registry' = NewRegistry
       /\ (result.op = "clear" /\ result'.op = "add") =>
              LET n == result'.name[1]
                  v == result'.value[1]
              IN  /\ DOMAIN _timings' = {n}
                  /\ _timings'[n] = <<v>>
                  /\ Func("count", _timings'[n]) = Num(1)
                  /\ Func("total", _timings'[n]) = Num(v)
                  /\ DOMAIN data' = {n}
                  /\ data'[n] = v]_vars

\* an add() after a clear() that had removed recorded values
C9_Witness ==
    /\ result.op = "add"
    /\ wiped
    /\ Entries = 1

\* C10 as stated: the logger is called exactly once by stop() on a running
\* timer with a logger, and not at all by a stop() that fails on an idle
\* timer, by a stop() without a logger, or by start().
C10_LoggerOncePerRunningStop ==
    [][\A t \in TimerIds :
          /\ (result'.op = "stop" /\ result'.timer = t) =>
                 Len(result'.sink) = IF Running(t) /\ logger[t] THEN 1 ELSE 0
          /\ (result'.op = "start" /\ result'.timer = t) =>
                 result'.sink = << >>]_vars

\* C10 amended: the logger is called at most once per stop(): exactly once
\* by stop() on a running timer with a logger when building the report does
\* not raise, and not at all when building the report raises, when stop()
\* fails on an idle timer, when there is no logger, or by start().
C10_LoggerOnceUnlessFormatterRaises ==
    [][\A t \in TimerIds :
          /\ (result'.op = "stop" /\ result'.timer = t) =>
                 Len(result'.sink) =
                     IF Running(t) /\ logger[t] /\ result'.status # "FormatterError"
                     THEN 1 ELSE 0
          /\ (result'.op = "start" /\ result'.timer = t) =>
                 result'.sink = << >>]_vars

\* the logger received the report of a stop() that then raised in the logger
C10_Witness ==
    /\ result.op = "stop"
    /\ result.status = "LoggerError"
    /\ Len(result.sink) = 1

\* C11 as stated: when a "with timer:" block is left, the timer is idle, and
\* if the body raised, the error of the body is what reaches the caller.
C11_BodyErrorReachesCaller ==
    [][\A t \in TimerIds :
          blocks'[t] = blocks[t] - 1 =>
              /\ ~Running(t)'
              /\ left'.body => left'.status = "BodyError"]_vars

\* C11 amended: when a "with timer:" block is left, by return or by an error
\* of the body, stop() has been called and the timer is idle; an error of
\* the body is never suppressed: the block ends in an error, which is the
\* error of the body whenever stop() itself returns, and the error of stop()
\* when stop() raises.
C11_StoppedAndNotSuppressed ==
    [][\A t \in TimerIds :
          blocks'[t] = blocks[t] - 1 =>
              /\ result'.op = "stop" /\ result'.timer = t
              /\ ~Running(t)'
              /\ left'.body => left'.status # "ok"
              /\ (left'.body /\ result'.status = "ok") => left'.status = "BodyError"
              /\ result'.status # "ok" => left'.status = result'.status]_vars

\* a block whose body raised was left, stop() returned, the error of the
\* body reached the caller, the timer is idle
C11_Witness ==
    /\ left.status = "BodyError"
    /\ result.op = "stop"
    /\ result.status = "ok"
    /\ blocks[left.timer] = 0
    /\ ~Running(left.timer)
    /\ last[left.timer] # NaN

\* count(n), with 0 for a name that is not recorded
CountOf(tm, n) == IF n \in DOMAIN tm THEN Len(tm[n]) ELSE 0

\* C12: with a timer of a (non-empty) name used as a decorator, every call
\* of the wrapped function, sequential or re-entrant, performs one start()
\* before the call and one stop() after it, and every call that returns
\* records exactly one duration, so that count(name) grows by one per call.
C12_EveryCallIsTimed ==
    [][\A t \in TimerIds :
          Truthy(name[t]) =>
              /\ (result'.op = "start" /\ result'.timer = t) =>
                     /\ result'.status = "ok"
                     /\ blocks'[t] = blocks[t] + 1
              /\ (result'.op = "stop" /\ result'.timer = t /\ left'.status = "ok") =>
                     CountOf(_timings', name[t][1]) = CountOf(_timings, name[t][1]) + 1]_vars

\* C13: a call that fails (stop on an idle timer, stop whose formatter or
\* logger raises, start on a running timer, a query of an unknown name, an
\* item assignment) leaves the totals and the history of the shared registry
\* exactly as they were.
C13_FailedCallKeepsRegistry ==
    [][result'.status # "ok" => registry' = registry]_vars

\* stop() of a named timer failed in the logger and the name is still not
\* recorded
C13_Witness ==
    /\ result.op = "stop"
    /\ result.status = "LoggerError"
    /\ Truthy(result.name)
    /\ result.name[1] \notin DOMAIN _timings
    /\ last[result.timer] # NaN

\* the last element of a non-empty list
LastOf(values) == values[Len(values)]

ReportFailed(status) == status \in {"FormatterError", "LoggerError"}

\* C20 as stated: stop() on a running timer leaves it idle with last set to
\* the new elapsed time, also when the formatter or the logger raises; a
\* start() on an idle timer succeeds; and when the formatter or the logger
\* raised nothing was added, so that last is not the last element of
\* history[name].
C20_LastIsNotInHistory ==
    [][\A t \in TimerIds :
          /\ (result'.op = "stop" /\ result'.timer = t /\ Running(t)) =>
                 /\ ~Running(t)'
                 /\ last'[t] = Num(now - _start_time[t][1])
                 /\ ReportFailed(result'.status) =>
                        /\ registry' = registry
                        /\ (name[t] # None /\ CountOf(_timings', name[t][1]) > 0) =>
                               last'[t] # Num(LastOf(_timings'[name[t][1]]))
          /\ (result'.op = "start" /\ result'.timer = t /\ ~Running(t)) =>
                 result'.status = "ok" /\ Running(t)']_vars

\* C20 amended: stop() on a running timer leaves it idle with last set to
\* the new elapsed time, also when the formatter or the logger raises; a
\* start() on an idle timer succeeds; and when the formatter or the logger
\* raised nothing was added: history[name] is what it was before the cycle
\* (last need not be its last element, and equals it only by coincidence).
C20_FailedReportStopsButAddsNothing ==
    [][\A t \in TimerIds :
          /\ (result'.op = "stop" /\ result'.timer = t /\ Running(t)) =>
                 /\ ~Running(t)'
                 /\ last'[t] = Num(now - _start_time[t][1])
                 /\ ReportFailed(result'.status) => registry' = registry
          /\ (result'.op = "start" /\ result'.timer = t /\ ~Running(t)) =>
                 result'.status = "ok" /\ Running(t)']_vars

\* the formatter raised in stop() of a named timer after an earlier cycle
\* had been recorded: last differs from the last recorded value
C20_Witness ==
    /\ result.op = "stop"
    /\ result.status = "FormatterError"
    /\ Truthy(result.name)
    /\ CountOf(_timings, result.name[1]) > 0
    /\ last[result.timer] # Num(LastOf(_timings[result.name[1]]))

\* the values of a list, and how many of them satisfy a bound
Range(values) == { values[i] : i \in DOMAIN values }
Below(values, x) == Cardinality({ i \in DOMAIN values : values[i] < x })
UpTo(values, x) == Cardinality({ i \in DOMAIN values : values[i] <= x })

\* the j-th smallest value of a list, by counting
Kth(values, j) ==
    CHOOSE x \in Range(values) : Below(values, x) < j /\ j <= UpTo(values, x)

\* C14: for a recorded name, min and max return the smallest and the largest
\* recorded value, mean returns total / count, and median returns the median
\* of the recorded values (the middle one, or half the sum of the two middle
\* ones).
C14_Statistics ==
    \A n \in Names :
        (result.name = Some(n) /\ result.status = "ok" /\ n \in DOMAIN _timings
            /\ result.op \in {"min", "max", "mean", "median"}) =>
            LET h == _timings[n]
                k == Len(h)
                v == result.value
            IN  /\ result.op = "min" =>
                       v[1] \in Range(h) /\ \A x \in Range(h) : v[1] <= x
                /\ result.op = "max" =>
                       v[1] \in Range(h) /\ \A x \in Range(h) : v[1] >= x
                /\ result.op = "mean" =>
                       /\ v[2] > 0
                       /\ v[1] * Func("count", h)[1] = v[2] * Func("total", h)[1]
                /\ result.op = "median" =>
                       /\ v[2] > 0
                       /\ 2 * v[1] = v[2] * (Kth(h, (k + 1) \div 2) + Kth(h, (k + 2) \div 2))

\* the median of two values recorded out of order is half their sum
C14_Witness ==
    /\ result.op = "median"
    /\ result.status = "ok"
    /\ result.value = <<3, 2>>
    /\ _timings[result.name[1]] = <<3, 0>>

\* the sum of (k * x - total)^2 over the values x of a list
RECURSIVE SumDeviations(_, _, _)
SumDeviations(values, k, total) ==
    IF values = << >> THEN 0
    ELSE (k * values[1] - total) * (k * values[1] - total)
             + SumDeviations(Tail(values), k, total)

\* C15: stdev(name) raises KeyError for an unrecorded name, returns nan when
\* exactly one value is recorded, and with k >= 2 values returns a number,
\* determined by the history: the square root of the sample variance
\* sum((x - mean)^2) / (k - 1).
C15_Stdev ==
    \A n \in Names :
        (result.op = "stdev" /\ result.name = Some(n)) =>
            IF n \notin DOMAIN _timings THEN result.status = "KeyError"
            ELSE LET h == _timings[n]
                     k == Len(h)
                     v == result.value
                 IN  /\ result.status = "ok"
                     /\ k = 1 => v = NaN
                     /\ k >= 2 =>
                            /\ v # NaN
                            /\ v[2] > 0
                            /\ v[1] * k * k * (k - 1) = v[2] * SumDeviations(h, k, sum(h))

\* the standard deviation of three values that are not all equal
C15_Witness ==
    /\ result.op = "stdev"
    /\ result.status = "ok"
    /\ result.value # NaN
    /\ result.value[1] > 0
    /\ Len(_timings[result.name[1]]) = 3

AllDone == \A th \in Threads : ~Busy(th)

\* C16: when the calls of add run one at a time, every completed state has
\* totals[name] = sum(history[name]); when two threads interleave the steps
\* of add on one name, a state with both adds completed and
\* totals[name] # sum(history[name]) is reachable (C16_LostUpdate).
C16_SerialAddsAreConsistent ==
    (AllDone /\ ~overlap) =>
        \A n \in Present :
            /\ n \in DOMAIN data
            /\ n \in DOMAIN _timings
            /\ data[n] = sum(_timings[n])

\* both adds to one name have completed, both values are in the history and
\* the total has lost one of them
C16_LostUpdate ==
    /\ AllDone
    /\ overlap
    /\ \E n \in DOMAIN data :
           /\ n \in DOMAIN _timings
           /\ Len(_timings[n]) = 2
           /\ data[n] # sum(_timings[n])

\* C17: a timer starts idle with last = nan; start() succeeds exactly in the
\* idle states and makes the timer running, stop() is accepted exactly in
\* the running states and makes it idle, so that successful starts and
\* stops alternate; and each stop() that returns on a timer with a name adds
\* one entry, so that count(name) grows by one per completed cycle.
C17_ReusableTimer ==
    [][/\ result.op = "init" => \A t \in TimerIds : ~Running(t) /\ last[t] = NaN
       /\ \A t \in TimerIds :
             /\ (result'.op = "start" /\ result'.timer = t) =>
                    /\ result'.status = "ok" <=> ~Running(t)
                    /\ Running(t)'
             /\ (result'.op = "stop" /\ result'.timer = t) =>
                    /\ result'.status # "TimerError" <=> Running(t)
                    /\ ~Running(t)'
             /\ (result'.op = "stop" /\ result'.timer = t /\ result'.status = "ok"
                    /\ name[t] # None) =>
                    CountOf(_timings', name[t][1]) = CountOf(_timings, name[t][1]) + 1]_vars

\* p is an initial part of q
IsPrefix(p, q) == Len(p) <= Len(q) /\ SubSeq(q, 1, Len(p)) = p

\* the history of a name, empty for a name that is not recorded
HistoryOf(tm, n) == IF n \in DOMAIN tm THEN tm[n] ELSE << >>

\* C18: between clears the history of every name only grows at its end:
\* add(name, v) yields the previous history[name] with v appended and leaves
\* the other names alone, a stop() leaves every recorded value in place, and
\* queries, rejected assignments, start() and the clock change nothing.
C18_HistoryIsAppendOnly ==
    [][result'.op # "clear" =>
          /\ \A n \in DOMAIN _timings :
                 n \in DOMAIN _timings' /\ IsPrefix(_timings[n], _timings'[n])
          /\ result'.op = "add" =>
                 /\ _timings'[result'.name[1]] =
                        Append(HistoryOf(_timings, result'.name[1]), result'.value[1])
                 /\ \A m \in DOMAIN _timings' \ {result'.name[1]} :
                        m \in DOMAIN _timings /\ _timings'[m] = _timings[m]
          /\ result'.op \notin {"add", "stop"} => _timings' = _timings]_vars

\* a second, different value was appended after the first
C18_Witness ==
    /\ result.op = "add"
    /\ Len(_timings[result.name[1]]) = 2
    /\ _timings[result.name[1]][2] = result.value[1]
    /\ _timings[result.name[1]][1] # result.value[1]

\* C19: two timers of the same name run independent state machines (a call
\* on one leaves the other's state alone, and start() on an idle timer
\* succeeds whether or not the other is running), and every stop() that
\* returns appends its duration to history[name], so that count(name) is the
\* number of successful stops of both and the history is in stop order.
C19_SharedRegistry ==
    [][\A t \in TimerIds :
          (result'.timer = t /\ result'.op \in {"start", "stop"}) =>
              /\ \A u \in TimerIds \ {t} :
                     _start_time'[u] = _start_time[u] /\ last'[u] = last[u]
              /\ (result'.op = "start" /\ ~Running(t)) =>
                     result'.status = "ok" /\ Running(t)'
              /\ (result'.op = "stop" /\ result'.status = "ok") =>
                     _timings' = [DefaultGet(_timings, name[t][1]) EXCEPT
                                      ![name[t][1]] = Append(@, result'.value[1])]]_vars

====
